---- MODULE Spec2Model ----
(***************************************************************************)
(* Fee estimator of dcrfeesim: the two tables of per (fee bucket x         *)
(* confirmation range) counters, the decay / shift done on every block,    *)
(* the mempool index, and the host-facing operations that drive them.      *)
(*                                                                         *)
(* The counters are float64 in the program.  Here a counter is the exact   *)
(* real number  SUM_a c[a] * decay^a , kept as its coefficients c[a]: the  *)
(* amount that has been through a decay steps.  Multiplying by decay       *)
(* moves every coefficient one age up; comparisons evaluate the sum with   *)
(* decay = DecayNum / DecayDen in exact integer arithmetic.                *)
(***************************************************************************)
EXTENDS Integers, Sequences, FiniteSets, TLC

\* ------------------------------------------------------------- bounds
MaxConfirms == 3
MaxHeight == 3
MaxTxIds == 2
MaxMined == 2
MaxAdds == 2
\* transactions generated by the simulation
MaxSimTxs == 4
MaxRanges == 5

\* ------------------------------------------------------ configuration
MinBucketFee == 100
MaxBucketFee == 400
FeeRateStep == 2

\* decay = 0.998 = 499 / 500
DecayNum == 499
DecayDen == 500

TxIds == 1..MaxTxIds
Heights == 0..MaxHeight
Ages == 0..MaxHeight
Slots == 0..(MaxConfirms - 1)

\* (fee in atoms, size in bytes) of the transactions the host submits:
\* rates 50 (below the first bucket), 100 and 200 atoms/KB
TxInputs == {<<50, 1000>>, <<100, 1000>>, <<100, 500>>}

RECURSIVE SeqsUpTo(_)
SeqsUpTo(n) ==
    IF n = 0 THEN {<<>>}
    ELSE LET shorter == SeqsUpTo(n - 1)
         IN  shorter \cup {Append(s, id) : s \in {t \in shorter : Len(t) = n - 1}, id \in TxIds}

MinedLists == SeqsUpTo(MaxMined)

\* the confirmation targets asked for, one of them beyond maxConfirms, and
\* the success percentages, as <<numerator, denominator>>
Targets == 1..(MaxConfirms + 1)
SuccessPcts == {<<1, 2>>, <<19, 20>>}

Min(S) == CHOOSE x \in S : \A y \in S : x <= y

\* ------------------------------------------------------------ float64
FZero == [a \in Ages |-> 0]
FConst(n) == [a \in Ages |-> IF a = 0 THEN n ELSE 0]
FAdd(p, q) == [a \in Ages |-> p[a] + q[a]]
FSub(p, q) == [a \in Ages |-> p[a] - q[a]]
\* p * decay
FMulDecay(p) == [a \in Ages |-> IF a = 0 THEN 0 ELSE p[a - 1]]

\* The value of p times DecayDen^MaxHeight, as digits in base DecayDen
\* (position i weighs DecayDen^i; the top position keeps the sign).
RECURSIVE CarryIn(_, _)
CarryIn(l, i) == IF i = 0 THEN 0 ELSE (l[i - 1] + CarryIn(l, i - 1)) \div DecayDen

Normalise(l) ==
    [i \in Ages |-> IF i = MaxHeight THEN l[i] + CarryIn(l, i)
                    ELSE (l[i] + CarryIn(l, i)) % DecayDen]

RECURSIVE Horner(_, _)
Horner(p, k) ==
    IF k = MaxHeight THEN Normalise([i \in Ages |-> IF i = 0 THEN p[k] ELSE 0])
    ELSE LET h == Horner(p, k + 1)
         IN  Normalise([i \in Ages |-> h[i] * DecayNum + (IF i = MaxHeight - k THEN p[k] ELSE 0)])

\* sign of the value of p; decay > 0, so coefficients of one sign decide it
FSign(p) ==
    IF \A a \in Ages : p[a] >= 0 THEN (IF p = FZero THEN 0 ELSE 1)
    ELSE IF \A a \in Ages : p[a] <= 0 THEN -1
    ELSE LET l == Horner(p, 0)
         IN  IF l[MaxHeight] < 0 THEN -1
             ELSE IF \A i \in Ages : l[i] = 0 THEN 0 ELSE 1

\* p * n, n an integer
FScale(p, n) == [a \in Ages |-> n * p[a]]

FLess(p, q) == FSign(FSub(p, q)) < 0
FLeq(p, q) == FSign(FSub(p, q)) <= 0

\* ------------------------------------------------------- bucket grid
RECURSIVE genBucketFees(_)
genBucketFees(f) ==
    IF f < MaxBucketFee THEN <<f>> \o genBucketFees(f * FeeRateStep) ELSE <<>>

bucketFees == genBucketFees(MinBucketFee)
nbBuckets == Len(bucketFees)
Buckets == 0..(nbBuckets - 1)
upperBound == [b \in Buckets |-> bucketFees[b + 1]]

ZeroCount == [txCount |-> FZero, feeSum |-> FZero]
ZeroBucket ==
    [confirmed |-> [c \in Slots |-> ZeroCount], confirmCount |-> FZero, feeSum |-> FZero]

newTxConfirmStats ==
    [buckets |-> [b \in Buckets |-> ZeroBucket],
     memPool |-> [b \in Buckets |-> ZeroBucket],
     memPoolTxs |-> <<>>,
     bestHeight |-> 0,
     panicked |-> FALSE]

\* faulty variant: a bucket is compared by its own bound, not by the next one
lowerBucketOwnBound(rate) ==
    LET found == {i \in 0..(nbBuckets - 2) : upperBound[i] > rate}
    IN  IF found # {} THEN Min(found) ELSE nbBuckets - 1

lowerBucket(rate) ==
    LET found == {i \in 0..(nbBuckets - 2) : upperBound[i + 1] > rate}
    IN  IF found # {} THEN Min(found) ELSE nbBuckets - 1

\* faulty variant: a delay of one block is the first range
confirmRangeLessOne(blocksToConfirm) ==
    IF blocksToConfirm - 1 >= MaxConfirms - 1 THEN MaxConfirms - 1 ELSE blocksToConfirm - 1

confirmRange(blocksToConfirm) ==
    IF blocksToConfirm >= MaxConfirms THEN MaxConfirms - 1 ELSE blocksToConfirm

\* ----------------------------------------------- per-block maintenance
\* faulty variant: the fee sum of a range is left undecayed
decayCountKeepsFeeSum(conf) == [txCount |-> FMulDecay(conf.txCount), feeSum |-> conf.feeSum]

decayCount(conf) == [txCount |-> FMulDecay(conf.txCount), feeSum |-> FMulDecay(conf.feeSum)]

\* faulty variant: the aggregate of the bucket is left undecayed
decayBucketKeepsAggregate(bucket) ==
    [bucket EXCEPT !.confirmed = [c \in Slots |-> decayCount(bucket.confirmed[c])]]

decayBucket(bucket) ==
    [confirmed |-> [c \in Slots |-> decayCount(bucket.confirmed[c])],
     confirmCount |-> FMulDecay(bucket.confirmCount),
     feeSum |-> FMulDecay(bucket.feeSum)]

\* faulty variant: the ranges below the last are left where they are
moveUpSkipped(confirmed, c) == confirmed

\* for c--; c > 0; c-- { confirmed[c] = confirmed[c-1] }
RECURSIVE moveUp(_, _)
moveUp(confirmed, c) ==
    IF c > 0 THEN moveUp([confirmed EXCEPT ![c] = confirmed[c - 1]], c - 1) ELSE confirmed

\* faulty variant: the last range is overwritten instead of added to
shiftBucketOverwritesLast(bucket) ==
    LET moved == moveUp(bucket.confirmed, MaxConfirms - 1)
    IN  [bucket EXCEPT !.confirmed = [moved EXCEPT ![0] = ZeroCount]]

\* faulty variant: the first range is not zeroed
shiftBucketKeepsFirst(bucket) ==
    LET c == MaxConfirms - 1
        merged == [bucket.confirmed EXCEPT
                     ![c] = [txCount |-> FAdd(@.txCount, bucket.confirmed[c - 1].txCount),
                             feeSum |-> FAdd(@.feeSum, bucket.confirmed[c - 1].feeSum)]]
    IN  [bucket EXCEPT !.confirmed = moveUp(merged, c - 1)]

\* c := len(bucket.confirmed) - 1
shiftBucket(bucket) ==
    LET c == Cardinality(DOMAIN bucket.confirmed) - 1
        merged == [bucket.confirmed EXCEPT
                     ![c] = [txCount |-> FAdd(@.txCount, bucket.confirmed[c - 1].txCount),
                             feeSum |-> FAdd(@.feeSum, bucket.confirmed[c - 1].feeSum)]]
        moved == moveUp(merged, c - 1)
    IN  [bucket EXCEPT !.confirmed = [moved EXCEPT ![0] = ZeroCount]]

updateMovingAverages(e) ==
    [e EXCEPT !.buckets = [b \in Buckets |-> decayBucket(e.buckets[b])],
              !.memPool = [b \in Buckets |-> shiftBucket(e.memPool[b])]]

\* ------------------------------------------------- recording the txs
addRate(conf, rate) ==
    [txCount |-> FAdd(conf.txCount, FConst(1)), feeSum |-> FAdd(conf.feeSum, FConst(rate))]

subRate(conf, rate) ==
    [txCount |-> FSub(conf.txCount, FConst(1)), feeSum |-> FSub(conf.feeSum, FConst(rate))]

\* faulty variant: the fee of the tx is not added to the cell
newMemPoolTxCountOnly(e, rate) ==
    LET bucketIdx == lowerBucket(rate)
    IN  [e EXCEPT !.memPool[bucketIdx].confirmed[0].txCount = FAdd(@, FConst(1))]

\* faulty variant: the tx enters at the second confirmation range
newMemPoolTxSecondRange(e, rate) ==
    LET bucketIdx == lowerBucket(rate)
    IN  [e EXCEPT !.memPool[bucketIdx].confirmed[1] = addRate(@, rate)]

newMemPoolTx(e, rate) ==
    LET bucketIdx == lowerBucket(rate)
    IN  [e EXCEPT !.memPool[bucketIdx].confirmed[0] = addRate(@, rate)]

\* faulty variant: the loop starts one range too late
recordConfirmedFromNext(e, blocksToConfirm, rate) ==
    LET bucketIdx == lowerBucket(rate)
        confirmIdx == confirmRange(blocksToConfirm)
        bucket == e.buckets[bucketIdx]
    IN  [e EXCEPT !.buckets[bucketIdx] =
            [confirmed |-> [c \in Slots |-> IF c > confirmIdx
                                            THEN addRate(bucket.confirmed[c], rate)
                                            ELSE bucket.confirmed[c]],
             confirmCount |-> FAdd(bucket.confirmCount, FConst(1)),
             feeSum |-> FAdd(bucket.feeSum, FConst(rate))]]

\* faulty variant: only the range of the delay is counted
recordConfirmedPointwise(e, blocksToConfirm, rate) ==
    LET bucketIdx == lowerBucket(rate)
        confirmIdx == confirmRange(blocksToConfirm)
        bucket == e.buckets[bucketIdx]
    IN  [e EXCEPT !.buckets[bucketIdx] =
            [confirmed |-> [c \in Slots |-> IF c = confirmIdx
                                            THEN addRate(bucket.confirmed[c], rate)
                                            ELSE bucket.confirmed[c]],
             confirmCount |-> FAdd(bucket.confirmCount, FConst(1)),
             feeSum |-> FAdd(bucket.feeSum, FConst(rate))]]

\* the confirmed half of newMinedTx
recordConfirmed(e, blocksToConfirm, rate) ==
    LET bucketIdx == lowerBucket(rate)
        confirmIdx == confirmRange(blocksToConfirm)
        bucket == e.buckets[bucketIdx]
    IN  [e EXCEPT !.buckets[bucketIdx] =
            [confirmed |-> [c \in Slots |-> IF c >= confirmIdx
                                            THEN addRate(bucket.confirmed[c], rate)
                                            ELSE bucket.confirmed[c]],
             confirmCount |-> FAdd(bucket.confirmCount, FConst(1)),
             feeSum |-> FAdd(bucket.feeSum, FConst(rate))]]

\* faulty variant: the count is not checked after the decrement
unrecordMemPoolUnchecked(e, bucketIdx, confirmIdx, rate) ==
    [e EXCEPT !.memPool[bucketIdx].confirmed[confirmIdx] = subRate(@, rate)]

\* faulty variant: a count of zero after the decrement panics as well
unrecordMemPoolPanicsAtZero(e, bucketIdx, confirmIdx, rate) ==
    LET conf == subRate(e.memPool[bucketIdx].confirmed[confirmIdx], rate)
    IN  [e EXCEPT !.memPool[bucketIdx].confirmed[confirmIdx] = conf,
                  !.panicked = FSign(conf.txCount) <= 0]

\* the mempool half of newMinedTx: a count below zero panics
unrecordMemPool(e, bucketIdx, confirmIdx, rate) ==
    LET conf == subRate(e.memPool[bucketIdx].confirmed[confirmIdx], rate)
    IN  [e EXCEPT !.memPool[bucketIdx].confirmed[confirmIdx] = conf,
                  !.panicked = FSign(conf.txCount) < 0]

newMinedTx(e, blocksToConfirm, rate) ==
    unrecordMemPool(recordConfirmed(e, blocksToConfirm, rate),
                    lowerBucket(rate), confirmRange(blocksToConfirm), rate)

\* ----------------------------------------------- host-facing operations
tracked(e, id) == id \in DOMAIN e.memPoolTxs

withTx(txs, id, desc) == [i \in DOMAIN txs \cup {id} |-> IF i = id THEN desc ELSE txs[i]]
withoutTx(txs, id) == [i \in DOMAIN txs \ {id} |-> txs[i]]

feeRateOf(fee, size) == (fee * 1000) \div size

\* faulty variant: a tracked id is counted again
AddMemPoolTransactionNoDedup(e, id, fee, size) ==
    LET rate == feeRateOf(fee, size)
    IN  IF rate < upperBound[0] THEN e
        ELSE LET desc == [addedHeight |-> e.bestHeight,
                          bucketIdx |-> lowerBucket(rate),
                          fees |-> rate]
             IN  newMemPoolTx([e EXCEPT !.memPoolTxs = withTx(@, id, desc)], rate)

\* faulty variant: the tx is stamped with the height of the next block
AddMemPoolTransactionNextHeight(e, id, fee, size) ==
    LET rate == feeRateOf(fee, size)
    IN  IF rate < upperBound[0] THEN e
        ELSE IF tracked(e, id) THEN e
        ELSE LET desc == [addedHeight |-> e.bestHeight + 1,
                          bucketIdx |-> lowerBucket(rate),
                          fees |-> rate]
             IN  newMemPoolTx([e EXCEPT !.memPoolTxs = withTx(@, id, desc)], rate)

AddMemPoolTransaction(e, id, fee, size) ==
    LET rate == feeRateOf(fee, size)
    IN  IF rate < upperBound[0] THEN e
        ELSE IF tracked(e, id) THEN e
        ELSE LET desc == [addedHeight |-> e.bestHeight,
                          bucketIdx |-> lowerBucket(rate),
                          fees |-> rate]
             IN  newMemPoolTx([e EXCEPT !.memPoolTxs = withTx(@, id, desc)], rate)

removeFromMemPool(e, blocksInMemPool, rate) ==
    unrecordMemPool(e, lowerBucket(rate), confirmRange(blocksInMemPool + 1), rate)

\* faulty variant: an unknown id aborts the program
RemoveMemPoolTransactionUnknownPanics(e, id) ==
    IF ~tracked(e, id) THEN [e EXCEPT !.panicked = TRUE]
    ELSE LET desc == e.memPoolTxs[id]
             removed == removeFromMemPool(e, e.bestHeight - desc.addedHeight, desc.fees)
         IN  IF removed.panicked THEN removed
             ELSE [removed EXCEPT !.memPoolTxs = withoutTx(@, id)]

RemoveMemPoolTransaction(e, id) ==
    IF ~tracked(e, id) THEN e
    ELSE LET desc == e.memPoolTxs[id]
             removed == removeFromMemPool(e, e.bestHeight - desc.addedHeight, desc.fees)
         IN  IF removed.panicked THEN removed
             ELSE [removed EXCEPT !.memPoolTxs = withoutTx(@, id)]

\* faulty variant: a tx the index does not know is recorded as confirmed all the same
processMinedTransactionNoSkip(e, blockHeight, id) ==
    IF ~tracked(e, id) THEN recordConfirmed(e, 1, upperBound[nbBuckets - 1])
    ELSE LET desc == e.memPoolTxs[id]
             mined == newMinedTx(e, blockHeight - desc.addedHeight, desc.fees)
         IN  IF mined.panicked THEN mined
             ELSE [mined EXCEPT !.memPoolTxs = withoutTx(@, id)]

\* faulty variant: a mined tx keeps its index entry
processMinedTransactionKeepsEntry(e, blockHeight, id) ==
    IF ~tracked(e, id) THEN e
    ELSE LET desc == e.memPoolTxs[id]
             mineDelay == blockHeight - desc.addedHeight
         IN  IF mineDelay <= 0 THEN RemoveMemPoolTransaction(e, id)
             ELSE newMinedTx(e, mineDelay, desc.fees)

processMinedTransaction(e, blockHeight, id) ==
    IF ~tracked(e, id) THEN e
    ELSE LET desc == e.memPoolTxs[id]
             mineDelay == blockHeight - desc.addedHeight
         IN  IF mineDelay <= 0 THEN RemoveMemPoolTransaction(e, id)
             ELSE LET mined == newMinedTx(e, mineDelay, desc.fees)
                  IN  IF mined.panicked THEN mined
                      ELSE [mined EXCEPT !.memPoolTxs = withoutTx(@, id)]

RECURSIVE processMined(_, _, _, _)
processMined(e, blockHeight, minedIds, k) ==
    IF k > Len(minedIds) \/ e.panicked THEN e
    ELSE processMined(processMinedTransaction(e, blockHeight, minedIds[k]),
                      blockHeight, minedIds, k + 1)

\* faulty variant: the mined txs are recorded before the tables are decayed and shifted
blockMinedFirst(e, h, minedIds) ==
    LET mined == processMined(e, h, minedIds, 1)
    IN  IF mined.panicked THEN mined
        ELSE [updateMovingAverages(mined) EXCEPT !.bestHeight = h]

\* one iteration of the block loop: the estimator is updated for height h,
\* then told of every tx of the block
blockMined(e, h, minedIds) ==
    processMined([updateMovingAverages(e) EXCEPT !.bestHeight = h], h, minedIds, 1)

\* faulty variant: a block at the best height is processed again
ProcessBlockAtBestHeight(e, newHeight, minedIds) ==
    IF newHeight < e.bestHeight THEN e
    ELSE blockMined(e, newHeight, minedIds)

\* faulty variant: a block of any height is processed
ProcessBlockAnyHeight(e, newHeight, minedIds) ==
    blockMined(e, newHeight, minedIds)

ProcessBlock(e, newHeight, minedIds) ==
    IF newHeight <= e.bestHeight THEN e
    ELSE blockMined(e, newHeight, minedIds)

\* ------------------------------------------------------------- estimate
\* what estimateMedianFee returns: the error, and the median as the pair
\* feeSum / confirmCount of the bucket it was taken from
NoResult == [err |-> "not called", feeSum |-> FZero, confirmCount |-> FZero]
failed(err) == [err |-> err, feeSum |-> FZero, confirmCount |-> FZero]

\* faulty variant: the mempool is left out of the total
scanTotalConfirmedOnly(e, b, confirmRangeIdx, totalTxs) ==
    FAdd(totalTxs, e.buckets[b].confirmCount)

\* totalTxs after bucket b: its confirmCount and its mempool txs of the range
scanTotal(e, b, confirmRangeIdx, totalTxs) ==
    FAdd(FAdd(totalTxs, e.buckets[b].confirmCount),
         e.memPool[b].confirmed[confirmRangeIdx].txCount)

scanConfirmed(e, b, confirmRangeIdx, confirmedTxs) ==
    FAdd(confirmedTxs, e.buckets[b].confirmed[confirmRangeIdx].txCount)

\* faulty variant: a total of exactly minTxCount is enough
enoughTxsAtLeastOne(totalTxs) == FLeq(FConst(1), totalTxs)

\* totalTxs > minTxCount, minTxCount = 1
enoughTxs(totalTxs) == FLess(FConst(1), totalTxs)

\* faulty variant: a run exactly at the success percentage is below it
belowOrAtSuccessPct(confirmedTxs, totalTxs, successPct) ==
    FLeq(FScale(confirmedTxs, successPct[2]), FScale(totalTxs, successPct[1]))

\* confirmedTxs / totalTxs < successPct, for totalTxs > 0 and
\* successPct = successPct[1] / successPct[2]
belowSuccessPct(confirmedTxs, totalTxs, successPct) ==
    FLess(FScale(confirmedTxs, successPct[2]), FScale(totalTxs, successPct[1]))

\* faulty variant: the best run starts out as the lowest fee bucket
scanStartFromLowest ==
    [totalTxs |-> FZero, confirmedTxs |-> FZero,
     bestBucketsStt |-> 0, bestBucketsEnd |-> 0,
     curBucketsStt |-> nbBuckets - 1, curBucketsEnd |-> nbBuckets - 1,
     err |-> "nil"]

scanStart ==
    [totalTxs |-> FZero, confirmedTxs |-> FZero,
     bestBucketsStt |-> nbBuckets - 1, bestBucketsEnd |-> nbBuckets - 1,
     curBucketsStt |-> nbBuckets - 1, curBucketsEnd |-> nbBuckets - 1,
     err |-> "nil"]

\* the scan from bucket b down to bucket 0
RECURSIVE scanBuckets(_, _, _, _, _)
scanBuckets(e, confirmRangeIdx, successPct, b, s) ==
    IF b < 0 THEN s
    ELSE LET totalTxs == scanTotal(e, b, confirmRangeIdx, s.totalTxs)
             confirmedTxs == scanConfirmed(e, b, confirmRangeIdx, s.confirmedTxs)
             seen == [s EXCEPT !.totalTxs = totalTxs,
                               !.confirmedTxs = confirmedTxs,
                               !.curBucketsStt = b]
         IN  IF ~enoughTxs(totalTxs)
             THEN scanBuckets(e, confirmRangeIdx, successPct, b - 1, seen)
             ELSE IF belowSuccessPct(confirmedTxs, totalTxs, successPct)
             THEN IF s.curBucketsEnd = nbBuckets - 1
                  THEN [seen EXCEPT !.err = "ErrNoSuccessPctBucketFound"]
                  ELSE seen
             ELSE scanBuckets(e, confirmRangeIdx, successPct, b - 1,
                              [seen EXCEPT !.bestBucketsStt = b,
                                           !.bestBucketsEnd = s.curBucketsEnd,
                                           !.curBucketsEnd = b - 1,
                                           !.totalTxs = FZero,
                                           !.confirmedTxs = FZero])

RECURSIVE sumConfirmCount(_, _, _)
sumConfirmCount(e, b, bestBucketsEnd) ==
    IF b > bestBucketsEnd THEN FZero
    ELSE FAdd(e.buckets[b].confirmCount, sumConfirmCount(e, b + 1, bestBucketsEnd))

\* faulty variant: a single tx is too few
tooFewTxsAtMostOne(txCount) == FSign(FSub(txCount, FConst(1))) <= 0

\* faulty variant: only a negative count is too few
tooFewTxsNegativeOnly(txCount) == FSign(txCount) < 0

\* txCount <= 0
tooFewTxs(txCount) == FSign(txCount) <= 0

\* faulty variant: the count is not halved before the second loop
RECURSIVE medianBucketNoHalving(_, _, _, _)
medianBucketNoHalving(e, b, bestBucketsEnd, txCount) ==
    IF b > bestBucketsEnd THEN -1
    ELSE IF FLess(e.buckets[b].confirmCount, txCount)
    THEN medianBucketNoHalving(e, b + 1, bestBucketsEnd,
                               FSub(txCount, e.buckets[b].confirmCount))
    ELSE b

\* faulty variant: the second loop starts one bucket above the start of the run
medianBucketSkipsFirst(e, b, bestBucketsEnd, twiceTxCount) ==
    LET RECURSIVE from(_, _)
        from(i, twice) ==
            IF i > bestBucketsEnd THEN -1
            ELSE IF FLess(FScale(e.buckets[i].confirmCount, 2), twice)
            THEN from(i + 1, FSub(twice, FScale(e.buckets[i].confirmCount, 2)))
            ELSE i
    IN  from(b + 1, twiceTxCount)

\* the second loop, from bucket b on; twiceTxCount is 2 * txCount, so that
\* confirmCount < txCount reads 2 * confirmCount < twiceTxCount
RECURSIVE medianBucket(_, _, _, _)
medianBucket(e, b, bestBucketsEnd, twiceTxCount) ==
    IF b > bestBucketsEnd THEN -1
    ELSE IF FLess(FScale(e.buckets[b].confirmCount, 2), twiceTxCount)
    THEN medianBucket(e, b + 1, bestBucketsEnd,
                      FSub(twiceTxCount, FScale(e.buckets[b].confirmCount, 2)))
    ELSE b

estimateMedianFee(e, minConfs, successPct) ==
    LET s == scanBuckets(e, confirmRange(minConfs), successPct, nbBuckets - 1, scanStart)
        txCount == sumConfirmCount(e, s.bestBucketsStt, s.bestBucketsEnd)
        b == medianBucket(e, s.bestBucketsStt, s.bestBucketsEnd, txCount)
    IN  IF s.err # "nil" THEN failed(s.err)
        ELSE IF tooFewTxs(txCount) THEN failed("ErrNotEnoughTxsForEstimate")
        ELSE IF b < 0 THEN failed("this isn't supposed to be reached")
        ELSE [err |-> "nil",
              feeSum |-> e.buckets[b].feeSum,
              confirmCount |-> e.buckets[b].confirmCount]


\* ---------------------------------------------------------------- state
VARIABLES buckets, memPool, memPoolTxs, bestHeight, panicked, op, nbAdds, estimated

vars == <<buckets, memPool, memPoolTxs, bestHeight, panicked, op, nbAdds, estimated>>

stats ==
    [buckets |-> buckets, memPool |-> memPool, memPoolTxs |-> memPoolTxs,
     bestHeight |-> bestHeight, panicked |-> panicked]

NoOp ==
    [name |-> "none", id |-> 0, fee |-> 0, size |-> 0, height |-> 0, mined |-> <<>>,
     minConfs |-> 0, successPct |-> <<0, 1>>]

Becomes(e) ==
    /\ buckets' = e.buckets
    /\ memPool' = e.memPool
    /\ memPoolTxs' = e.memPoolTxs
    /\ bestHeight' = e.bestHeight
    /\ panicked' = e.panicked

Init ==
    /\ buckets = newTxConfirmStats.buckets
    /\ memPool = newTxConfirmStats.memPool
    /\ memPoolTxs = newTxConfirmStats.memPoolTxs
    /\ bestHeight = newTxConfirmStats.bestHeight
    /\ panicked = newTxConfirmStats.panicked
    /\ op = NoOp
    /\ nbAdds = 0
    /\ estimated = NoResult

AddMemPool ==
    \E id \in TxIds, in \in TxInputs :
        /\ ~panicked
        /\ nbAdds < MaxAdds
        /\ Becomes(AddMemPoolTransaction(stats, id, in[1], in[2]))
        /\ op' = [NoOp EXCEPT !.name = "add", !.id = id, !.fee = in[1], !.size = in[2]]
        /\ nbAdds' = IF tracked(stats, id) \/ feeRateOf(in[1], in[2]) < upperBound[0]
                      THEN nbAdds ELSE nbAdds + 1
        /\ estimated' = NoResult

RemoveMemPool ==
    \E id \in TxIds :
        /\ ~panicked
        /\ Becomes(RemoveMemPoolTransaction(stats, id))
        /\ op' = [NoOp EXCEPT !.name = "remove", !.id = id]
        /\ estimated' = NoResult
        /\ UNCHANGED nbAdds

Block ==
    \E newHeight \in Heights, minedIds \in MinedLists :
        /\ ~panicked
        /\ Becomes(ProcessBlock(stats, newHeight, minedIds))
        /\ op' = [NoOp EXCEPT !.name = "block", !.height = newHeight, !.mined = minedIds]
        /\ estimated' = NoResult
        /\ UNCHANGED nbAdds

\* faulty variant: the estimate decays the confirmed table it has read
EstimateDecaysTable ==
    \E minConfs \in Targets, successPct \in SuccessPcts :
        /\ ~panicked
        /\ estimated' = estimateMedianFee(stats, minConfs, successPct)
        /\ op' = [NoOp EXCEPT !.name = "estimate", !.minConfs = minConfs,
                                                   !.successPct = successPct]
        /\ buckets' = [b \in Buckets |-> decayBucket(buckets[b])]
        /\ UNCHANGED <<memPool, memPoolTxs, bestHeight, panicked, nbAdds>>

Estimate ==
    \E minConfs \in Targets, successPct \in SuccessPcts :
        /\ ~panicked
        /\ estimated' = estimateMedianFee(stats, minConfs, successPct)
        /\ op' = [NoOp EXCEPT !.name = "estimate", !.minConfs = minConfs,
                                                   !.successPct = successPct]
        /\ UNCHANGED <<buckets, memPool, memPoolTxs, bestHeight, panicked, nbAdds>>

Next == AddMemPool \/ RemoveMemPool \/ Block \/ Estimate

Spec == Init /\ [][Next]_vars

\* ------------------------------------------------------- the simulation
\* The loop of main: every iteration mines a block at the next height out of
\* the transactions generated so far, then generates new transactions; the
\* estimates are asked for on what the estimator has seen.
RECURSIVE inOrder(_)
inOrder(ids) ==
    IF ids = {} THEN <<>> ELSE LET id == Min(ids) IN <<id>> \o inOrder(ids \ {id})

SimBlock ==
    \E minedTxs \in SUBSET (DOMAIN memPoolTxs) :
        LET h == bestHeight + 1
        IN  /\ ~panicked
            /\ h <= MaxHeight
            /\ Becomes(ProcessBlock(stats, h, inOrder(minedTxs)))
            /\ op' = [NoOp EXCEPT !.name = "block", !.height = h, !.mined = inOrder(minedTxs)]
            /\ estimated' = NoResult
            /\ UNCHANGED nbAdds

SimAdd ==
    \E in \in TxInputs :
        LET id == nbAdds + 1
        IN  /\ ~panicked
            /\ bestHeight >= 1
            /\ nbAdds < MaxSimTxs
            /\ Becomes(AddMemPoolTransaction(stats, id, in[1], in[2]))
            /\ op' = [NoOp EXCEPT !.name = "add", !.id = id, !.fee = in[1], !.size = in[2]]
            /\ nbAdds' = IF feeRateOf(in[1], in[2]) < upperBound[0] THEN nbAdds ELSE nbAdds + 1
            /\ estimated' = NoResult

SimNext == SimBlock \/ SimAdd \/ Estimate

SimSpec == Init /\ [][SimNext]_vars

\* ------------------------------------------- the loop of the first driver
\* The first main drives the tables itself, with no index and no height in
\* the estimator: every iteration h = 1, 2, ... takes the mined txs out of the
\* simulator's pool, generates new ones, calls updateMovingAverages, then
\* newMinedTx(h - genHeight, rate) for the mined and newMemPoolTx(rate) for
\* the new txs.  memPoolTxs holds the simulator's pool and bestHeight is h;
\* the pool is empty in iteration 1, so one more iteration than MaxHeight
\* decays the recorded txs no more than MaxHeight - 1 times.
RECURSIVE newMinedTxs(_, _, _, _)
newMinedTxs(e, h, minedTxs, k) ==
    IF k > Len(minedTxs) \/ e.panicked THEN e
    ELSE LET tx == e.memPoolTxs[minedTxs[k]]
         IN  newMinedTxs(newMinedTx(e, h - tx.addedHeight, tx.fees), h, minedTxs, k + 1)

DriverBlock ==
    \E minedTxs \in SUBSET (DOMAIN memPoolTxs) :
        LET h == bestHeight + 1
            mined == newMinedTxs(updateMovingAverages(stats), h, inOrder(minedTxs), 1)
        IN  /\ ~panicked
            /\ h <= MaxHeight + 1
            /\ Becomes([mined EXCEPT !.bestHeight = h,
                                     !.memPoolTxs = [id \in DOMAIN memPoolTxs \ minedTxs
                                                       |-> memPoolTxs[id]]])
            /\ op' = [NoOp EXCEPT !.name = "block", !.height = h, !.mined = inOrder(minedTxs)]
            /\ estimated' = NoResult
            /\ UNCHANGED nbAdds

DriverGen ==
    \E in \in TxInputs :
        LET id == nbAdds + 1
            rate == feeRateOf(in[1], in[2])
            tx == [addedHeight |-> bestHeight, bucketIdx |-> lowerBucket(rate), fees |-> rate]
        IN  /\ ~panicked
            /\ bestHeight >= 1
            /\ nbAdds < MaxSimTxs
            /\ Becomes(newMemPoolTx([stats EXCEPT !.memPoolTxs = withTx(@, id, tx)], rate))
            /\ op' = [NoOp EXCEPT !.name = "add", !.id = id, !.fee = in[1], !.size = in[2]]
            /\ nbAdds' = nbAdds + 1
            /\ estimated' = NoResult

DriverNext == DriverBlock \/ DriverGen

DriverSpec == Init /\ [][DriverNext]_vars

\* ------------------------------------------------------------ properties
RECURSIVE sumTxCount(_, _)
sumTxCount(confirmed, c) ==
    IF c < 0 THEN FZero ELSE FAdd(confirmed[c].txCount, sumTxCount(confirmed, c - 1))

trackedIn(txs, b) == {id \in DOMAIN txs : txs[id].bucketIdx = b}

\* C1: after every operation that returned, the mempool counts of a fee
\* bucket, summed over its confirmation ranges, equal the number of index
\* entries registered in that bucket.
C1_MemPoolSumMatchesIndex ==
    ~panicked =>
        \A b \in Buckets :
            sumTxCount(memPool[b].confirmed, MaxConfirms - 1)
                = FConst(Cardinality(trackedIn(memPoolTxs, b)))

\* two tracked txs of one fee bucket, one of them aged into the last range
C1_Witness ==
    /\ ~panicked
    /\ op.name = "block"
    /\ \E b \in Buckets :
        /\ Cardinality(trackedIn(memPoolTxs, b)) = 2
        /\ memPool[b].confirmed[MaxConfirms - 1].txCount = FConst(1)
        /\ memPool[b].confirmed[1].txCount = FConst(1)

\* C2: after every operation that returned, no count of the confirmed table
\* or of the mempool table is negative.
C2_CountsNonNegative ==
    ~panicked =>
        \A b \in Buckets, c \in Slots :
            /\ FSign(buckets[b].confirmed[c].txCount) >= 0
            /\ FSign(memPool[b].confirmed[c].txCount) >= 0

\* a mined tx left its mempool cell empty and is counted as confirmed
C2_Witness ==
    /\ ~panicked
    /\ op.name = "block"
    /\ memPoolTxs = <<>>
    /\ \E b \in Buckets :
        /\ FSign(buckets[b].confirmed[MaxConfirms - 1].txCount) > 0
        /\ \A c \in Slots : memPool[b].confirmed[c].txCount = FZero

\* C3: recording a tx mined after d >= 1 blocks adds (1, rate) to the cells
\* (i, s) .. (i, maxConfirms - 1), i = lowerBucket(rate), s = confirmRange(d),
\* once to the aggregate of bucket i, and to nothing else of the confirmed
\* table.
C3_RecordsFromConfirmRange ==
    \A d \in 1..(MaxHeight + 1), in \in TxInputs :
        LET rate == feeRateOf(in[1], in[2])
            i == lowerBucket(rate)
            s == confirmRange(d)
            after == newMinedTx(stats, d, rate).buckets
        IN  \A b \in Buckets :
                /\ \A c \in Slots :
                    IF b = i /\ c >= s
                    THEN /\ after[b].confirmed[c].txCount
                              = FAdd(buckets[b].confirmed[c].txCount, FConst(1))
                         /\ after[b].confirmed[c].feeSum
                              = FAdd(buckets[b].confirmed[c].feeSum, FConst(rate))
                    ELSE after[b].confirmed[c] = buckets[b].confirmed[c]
                /\ after[b].confirmCount
                     = FAdd(buckets[b].confirmCount, FConst(IF b = i THEN 1 ELSE 0))
                /\ after[b].feeSum
                     = FAdd(buckets[b].feeSum, FConst(IF b = i THEN rate ELSE 0))

\* a tx mined two blocks after it was added: recorded from range 2 on only
C3_Witness ==
    /\ op.name = "block"
    /\ \E b \in Buckets :
        /\ buckets[b].confirmed[MaxConfirms - 1].txCount = FConst(1)
        /\ buckets[b].confirmed[MaxConfirms - 2].txCount = FZero
        /\ buckets[b].confirmCount = FConst(1)

\* C4: in every fee bucket of the confirmed table the count does not decrease
\* from one confirmation range to the next, decayed or not.
C4_ConfirmedCumulative ==
    \A b \in Buckets, c \in 0..(MaxConfirms - 2) :
        FLeq(buckets[b].confirmed[c].txCount, buckets[b].confirmed[c + 1].txCount)

\* a decayed tx in ranges 1.. and a fresh one in the last range only
C4_Witness ==
    \E b \in Buckets :
        /\ FSign(buckets[b].confirmed[MaxConfirms - 2].txCount) > 0
        /\ buckets[b].confirmed[MaxConfirms - 2].txCount[0] = 0
        /\ FLess(buckets[b].confirmed[MaxConfirms - 2].txCount,
                 buckets[b].confirmed[MaxConfirms - 1].txCount)

\* C5: the aggregate of every fee bucket equals the bucket's last
\* confirmation range, count and fee sum.
C5_AggregateIsLastRange ==
    \A b \in Buckets :
        /\ buckets[b].confirmCount = buckets[b].confirmed[MaxConfirms - 1].txCount
        /\ buckets[b].feeSum = buckets[b].confirmed[MaxConfirms - 1].feeSum

\* two txs recorded in one bucket at different heights
C5_Witness ==
    \E b \in Buckets :
        /\ buckets[b].confirmCount[0] = 1
        /\ \E a \in Ages \ {0} : buckets[b].confirmCount[a] = 1
        /\ FSign(buckets[b].feeSum) > 0

\* the block of this step is above the best height: it is processed
EffectiveBlock == op'.name = "block" /\ op'.height > bestHeight

\* the tracked txs the block of this step mines
MinedTracked == {id \in DOMAIN memPoolTxs : \E k \in 1..Len(op'.mined) : op'.mined[k] = id}

\* those of them recorded in cell (b, c): delay = new height - added height
RecordedInto(b, c) ==
    {id \in MinedTracked :
        /\ memPoolTxs[id].bucketIdx = b
        /\ confirmRange(op'.height - memPoolTxs[id].addedHeight) <= c}

\* C6: a processed block decays the confirmed table and sets the best height
\* before it records the mined txs: each of them, with delay new height -
\* added height, counts for exactly 1 in each of its cells at the end.
C6_DecayBeforeMined ==
    [][(EffectiveBlock /\ ~panicked') =>
          /\ bestHeight' = op'.height
          /\ \A id \in MinedTracked : id \notin DOMAIN memPoolTxs'
          /\ \A b \in Buckets, c \in Slots :
                buckets'[b].confirmed[c].txCount
                  = FAdd(FMulDecay(buckets[b].confirmed[c].txCount),
                         FConst(Cardinality(RecordedInto(b, c))))]_vars

\* one block mined two txs of a bucket, one with delay 1 and one with delay 2
C6_Witness ==
    /\ ~panicked
    /\ op.name = "block"
    /\ op.height = bestHeight
    /\ Len(op.mined) = 2
    /\ \E b \in Buckets :
        /\ buckets[b].confirmed[1].txCount = FConst(1)
        /\ buckets[b].confirmed[2].txCount = FConst(2)

\* C7: adding an untracked tx whose rate reaches the first bucket registers
\* it with the best height, its bucket and its rate, adds (1, rate) to the
\* mempool cell (bucket, 0) and changes nothing else.
C7_AddFrame ==
    [][(/\ op'.name = "add"
        /\ op'.id \notin DOMAIN memPoolTxs
        /\ feeRateOf(op'.fee, op'.size) >= upperBound[0]) =>
          LET rate == feeRateOf(op'.fee, op'.size)
              i == lowerBucket(rate)
          IN  /\ DOMAIN memPoolTxs' = DOMAIN memPoolTxs \cup {op'.id}
              /\ memPoolTxs'[op'.id]
                   = [addedHeight |-> bestHeight, bucketIdx |-> i, fees |-> rate]
              /\ \A id \in DOMAIN memPoolTxs : memPoolTxs'[id] = memPoolTxs[id]
              /\ \A b \in Buckets, c \in Slots :
                    memPool'[b].confirmed[c]
                      = IF b = i /\ c = 0
                        THEN [txCount |-> FAdd(memPool[b].confirmed[c].txCount, FConst(1)),
                              feeSum |-> FAdd(memPool[b].confirmed[c].feeSum, FConst(rate))]
                        ELSE memPool[b].confirmed[c]
              /\ buckets' = buckets
              /\ bestHeight' = bestHeight
              /\ ~panicked']_vars

\* a tx added at height > 0 next to an older tx of the same bucket
C7_Witness ==
    /\ op.name = "add"
    /\ op.id \in DOMAIN memPoolTxs
    /\ bestHeight > 0
    /\ memPoolTxs[op.id].addedHeight = bestHeight
    /\ memPoolTxs[op.id].fees = feeRateOf(op.fee, op.size)
    /\ LET b == memPoolTxs[op.id].bucketIdx
       IN  /\ memPool[b].confirmed[0].txCount = FConst(1)
           /\ memPool[b].confirmed[1].txCount = FConst(1)

\* C8 (as claimed): removing a tracked tx takes (1, rate) from the mempool
\* cell of its bucket at range min(best height - added height, maxConfirms - 1)
\* (range 0 when removed at the height it was added), erases its index entry
\* and changes nothing else.
C8_RemoveAtRangeOfAge ==
    [][(op'.name = "remove" /\ op'.id \in DOMAIN memPoolTxs) =>
          LET desc == memPoolTxs[op'.id]
              s == Min({bestHeight - desc.addedHeight, MaxConfirms - 1})
          IN  /\ \A b \in Buckets, c \in Slots :
                    memPool'[b].confirmed[c]
                      = IF b = desc.bucketIdx /\ c = s
                        THEN [txCount |-> FSub(memPool[b].confirmed[c].txCount, FConst(1)),
                              feeSum |-> FSub(memPool[b].confirmed[c].feeSum, FConst(desc.fees))]
                        ELSE memPool[b].confirmed[c]
              /\ DOMAIN memPoolTxs' = DOMAIN memPoolTxs \ {op'.id}
              /\ \A id \in DOMAIN memPoolTxs' : memPoolTxs'[id] = memPoolTxs[id]
              /\ buckets' = buckets
              /\ bestHeight' = bestHeight]_vars

\* C9: a processed block skips the mined ids the index does not hold: the
\* block leaves the state the same block without those ids leaves.
C9_UntrackedMinedSkipped ==
    [][EffectiveBlock =>
          LET known(id) == id \in DOMAIN memPoolTxs
          IN  stats' = ProcessBlock(stats, op'.height, SelectSeq(op'.mined, known))]_vars

\* a block listing an untracked id before a tracked one, which it records
C9_Witness ==
    /\ ~panicked
    /\ op.name = "block"
    /\ op.height = bestHeight
    /\ op.mined = <<2, 1>>
    /\ DOMAIN memPoolTxs = {}
    /\ \E b \in Buckets :
        /\ buckets[b].confirmCount = FConst(1)
        /\ \A bb \in Buckets \ {b} : buckets[bb].confirmCount = FZero

\* C10 (as claimed): in any state, adding an untracked tx and removing it
\* right away leaves every mempool cell and the index as they were.
C10_AddThenRemoveRestores ==
    ~panicked =>
        \A id \in TxIds \ DOMAIN memPoolTxs, in \in TxInputs :
            LET added == AddMemPoolTransaction(stats, id, in[1], in[2])
                removed == RemoveMemPoolTransaction(added, id)
            IN  /\ removed.memPool = memPool
                /\ removed.memPoolTxs = memPoolTxs
                /\ ~removed.panicked

\* C11: adding an id the index already holds, with any fee and size, changes
\* neither the index nor the tables; adding twice in a row is adding once.
C11_AddIdempotent ==
    ~panicked =>
        \A id \in TxIds, in \in TxInputs :
            LET once == AddMemPoolTransaction(stats, id, in[1], in[2])
            IN  /\ tracked(stats, id) => once = stats
                /\ \A again \in TxInputs :
                       (tracked(once, id) \/ again = in)
                           => AddMemPoolTransaction(once, id, again[1], again[2]) = once

\* a tracked tx was added again with another fee rate, one block later
C11_Witness ==
    /\ op.name = "add"
    /\ op.id \in DOMAIN memPoolTxs
    /\ feeRateOf(op.fee, op.size) >= upperBound[0]
    /\ memPoolTxs[op.id].fees # feeRateOf(op.fee, op.size)
    /\ memPoolTxs[op.id].addedHeight < bestHeight
    /\ nbAdds = 1

\* C12: removing an id the index does not hold returns and leaves the index,
\* both tables and the best height as they were.
C12_RemoveUnknownNoop ==
    ~panicked =>
        \A id \in TxIds \ DOMAIN memPoolTxs : RemoveMemPoolTransaction(stats, id) = stats

\* the one tx ever added is still tracked, and another id was removed
C12_Witness ==
    /\ op.name = "remove"
    /\ nbAdds = 1
    /\ Cardinality(DOMAIN memPoolTxs) = 1
    /\ op.id \notin DOMAIN memPoolTxs
    /\ bestHeight > 0
    /\ ~panicked

\* C13: a block at or below the best height changes nothing: no decay, no
\* shift, same best height, and its mined ids stay tracked and unrecorded.
C13_OldBlockIgnored ==
    ~panicked =>
        \A newHeight \in Heights, minedIds \in MinedLists :
            newHeight <= bestHeight => ProcessBlock(stats, newHeight, minedIds) = stats

\* a block at the best height that lists a tracked tx, after a tx was recorded
C13_Witness ==
    /\ op.name = "block"
    /\ op.height = bestHeight
    /\ bestHeight > 0
    /\ \E k \in 1..Len(op.mined) : op.mined[k] \in DOMAIN memPoolTxs
    /\ \E b \in Buckets : buckets[b].confirmCount = FConst(1)
    /\ \E b \in Buckets : FSign(memPool[b].confirmed[0].txCount) > 0

\* C14: an add with a rate below the first bucket changes nothing; an add of
\* an untracked id with the rate of the first bucket is tracked and counted
\* in fee bucket 0.
C14_RateFloor ==
    ~panicked =>
        \A id \in TxIds, in \in TxInputs :
            LET rate == feeRateOf(in[1], in[2])
                added == AddMemPoolTransaction(stats, id, in[1], in[2])
            IN  /\ rate < upperBound[0] => added = stats
                /\ (rate = upperBound[0] /\ ~tracked(stats, id)) =>
                      /\ tracked(added, id)
                      /\ added.memPoolTxs[id].bucketIdx = 0
                      /\ added.memPool[0].confirmed[0].txCount
                           = FAdd(memPool[0].confirmed[0].txCount, FConst(1))
                      /\ \A b \in Buckets \ {0} : added.memPool[b] = memPool[b]

\* a tx paying exactly the rate of the first bucket is tracked in bucket 0
C14_Witness ==
    /\ op.name = "add"
    /\ feeRateOf(op.fee, op.size) = upperBound[0]
    /\ op.id \in DOMAIN memPoolTxs
    /\ memPoolTxs[op.id].addedHeight = bestHeight
    /\ memPoolTxs[op.id].bucketIdx = 0
    /\ memPool[0].confirmed[0].txCount = FConst(1)
    /\ nbAdds = 1

\* C15: the best height never decreases, and a step of add, remove or
\* estimate leaves it as it was.
C15_BestHeightMonotonic ==
    [][/\ bestHeight' >= bestHeight
       /\ op'.name \in {"add", "remove", "estimate"} => bestHeight' = bestHeight]_vars

\* an estimate asked for after the best height went up twice
C15_Witness ==
    /\ op.name = "estimate"
    /\ bestHeight >= 2
    /\ memPoolTxs # <<>>

\* ------------------------------------------- properties of the estimates
Max(S) == CHOOSE x \in S : \A y \in S : x >= y

\* the targets the table covers
validTarget(minConfs) == minConfs - 1 < MaxConfirms

\* over the fee buckets lo..hi, at confirmation range t: the txs seen
\* (confirmed at any delay, or still in the mempool at range t) and the txs
\* confirmed within range t
RECURSIVE runTotal(_, _, _)
runTotal(t, lo, hi) ==
    IF lo > hi THEN FZero
    ELSE FAdd(FAdd(buckets[lo].confirmCount, memPool[lo].confirmed[t].txCount),
              runTotal(t, lo + 1, hi))

RECURSIVE runConfirmed(_, _, _)
runConfirmed(t, lo, hi) ==
    IF lo > hi THEN FZero
    ELSE FAdd(buckets[lo].confirmed[t].txCount, runConfirmed(t, lo + 1, hi))

runFull(t, lo, hi) == FSign(FSub(runTotal(t, lo, hi), FConst(1))) > 0

runMeetsPct(t, successPct, lo, hi) ==
    FLeq(FScale(runTotal(t, lo, hi), successPct[1]),
         FScale(runConfirmed(t, lo, hi), successPct[2]))

\* the highest bucket at which the run ending at bucket end holds more than
\* one tx, -1 if there is none
firstFull(t, end) ==
    LET full == {b \in 0..end : runFull(t, b, end)}
    IN  IF full = {} THEN -1 ELSE Max(full)

\* the runs from bucket end down: every full run that meets the percentage
\* becomes the best one, the first that does not ends the scan
RECURSIVE bestRun(_, _, _, _)
bestRun(t, successPct, end, best) ==
    LET b == firstFull(t, end)
    IN  IF b < 0 THEN [stt |-> best[1], end |-> best[2], stopped |-> FALSE, noSuccess |-> FALSE]
        ELSE IF runMeetsPct(t, successPct, b, end)
        THEN bestRun(t, successPct, b - 1, <<b, end>>)
        ELSE [stt |-> best[1], end |-> best[2], stopped |-> TRUE,
              noSuccess |-> (end = nbBuckets - 1)]

selectedRun(minConfs, successPct) ==
    bestRun(confirmRange(minConfs), successPct, nbBuckets - 1,
            <<nbBuckets - 1, nbBuckets - 1>>)

RECURSIVE runConfirmCount(_, _)
runConfirmCount(lo, hi) ==
    IF lo > hi THEN FZero ELSE FAdd(buckets[lo].confirmCount, runConfirmCount(lo + 1, hi))

\* C16: with t = confirmRange(target), the scan counts confirmCount and the
\* mempool count of range t in the total and the confirmed count of range t
\* in confirmed; a run becomes the best one only at the bucket where its total
\* exceeds 1 with confirmed / total >= successPct, after which the sums start
\* again; the scan stops at the first bucket where the total exceeds 1 with
\* confirmed / total below successPct, and the last run promoted is kept.
C16_ScanPromotesFullRuns ==
    (op.name = "estimate" /\ validTarget(op.minConfs)) =>
        LET s == scanBuckets(stats, confirmRange(op.minConfs), op.successPct,
                             nbBuckets - 1, scanStart)
            run == selectedRun(op.minConfs, op.successPct)
        IN  /\ s.bestBucketsStt = run.stt
            /\ s.bestBucketsEnd = run.end
            /\ (s.err = "ErrNoSuccessPctBucketFound") = run.noSuccess
            /\ run.noSuccess => estimated.err = "ErrNoSuccessPctBucketFound"

\* the top bucket was promoted, with a mempool tx in its total, and the scan
\* stopped at the bucket below: the estimate is the one of the top bucket
C16_Witness ==
    /\ op.name = "estimate"
    /\ validTarget(op.minConfs)
    /\ estimated.err = "nil"
    /\ LET t == confirmRange(op.minConfs)
           top == nbBuckets - 1
       IN  /\ FSign(memPool[top].confirmed[t].txCount) > 0
           /\ runFull(t, top, top)
           /\ runMeetsPct(t, op.successPct, top, top)
           /\ runFull(t, top - 1, top - 1)
           /\ ~runMeetsPct(t, op.successPct, top - 1, top - 1)
           /\ estimated.confirmCount = buckets[top].confirmCount

\* C17: a successful estimate is feeSum / confirmCount of the lowest bucket
\* of the selected run at which the confirmCount of the run up to and
\* including it reaches half of the confirmCount of the whole run.
C17_MedianOfRun ==
    (op.name = "estimate" /\ validTarget(op.minConfs) /\ estimated.err = "nil") =>
        LET run == selectedRun(op.minConfs, op.successPct)
            half == {b \in run.stt..run.end :
                        FLeq(runConfirmCount(run.stt, run.end),
                             FScale(runConfirmCount(run.stt, b), 2))}
        IN  /\ half # {}
            /\ estimated.feeSum = buckets[Min(half)].feeSum
            /\ estimated.confirmCount = buckets[Min(half)].confirmCount

\* a run of two buckets whose lower bucket holds less than half of the txs:
\* the estimate is taken from the upper one
C17_Witness ==
    /\ op.name = "estimate"
    /\ validTarget(op.minConfs)
    /\ estimated.err = "nil"
    /\ LET run == selectedRun(op.minConfs, op.successPct)
       IN  /\ run.stt = 0
           /\ run.end = 1
           /\ FSign(buckets[0].confirmCount) > 0
           /\ FLess(FScale(buckets[0].confirmCount, 2), runConfirmCount(0, 1))
           /\ estimated.feeSum = buckets[1].feeSum
           /\ estimated.confirmCount = buckets[1].confirmCount

\* C18 (as claimed): an estimate for a target with target - 1 >= maxConfirms
\* fails with TargetConfTooLarge, whatever the tables hold.
C18_TargetTooLargeFails ==
    (op.name = "estimate" /\ op.minConfs - 1 >= MaxConfirms) =>
        estimated.err = "TargetConfTooLarge"

\* C19: for a target the table covers, the estimate fails with
\* NoSuccessPctBucket exactly when the first run from the top bucket down
\* that holds more than one tx has confirmed / total below successPct.
C19_NoSuccessPctBucket ==
    (op.name = "estimate" /\ validTarget(op.minConfs)) =>
        LET t == confirmRange(op.minConfs)
            b == firstFull(t, nbBuckets - 1)
        IN  (estimated.err = "ErrNoSuccessPctBucketFound")
                <=> (b >= 0 /\ ~runMeetsPct(t, op.successPct, b, nbBuckets - 1))

\* the top bucket alone holds one tx; the run down to the bucket below is the
\* first with more than one, has confirmed txs, and is below the percentage
C19_Witness ==
    /\ op.name = "estimate"
    /\ validTarget(op.minConfs)
    /\ estimated.err = "ErrNoSuccessPctBucketFound"
    /\ LET t == confirmRange(op.minConfs)
       IN  /\ firstFull(t, nbBuckets - 1) = nbBuckets - 2
           /\ FSign(runTotal(t, nbBuckets - 1, nbBuckets - 1)) > 0
           /\ FSign(runConfirmed(t, nbBuckets - 2, nbBuckets - 1)) > 0

\* C20: for a target the table covers, the estimate fails with NotEnoughTxs
\* exactly when the scan did not fail with NoSuccessPctBucket and the
\* confirmCount of the selected run is <= 0; a new estimator has NotEnoughTxs
\* for every such target.
C20_NotEnoughTxs ==
    (op.name = "estimate" /\ validTarget(op.minConfs)) =>
        LET run == selectedRun(op.minConfs, op.successPct)
        IN  /\ (estimated.err = "ErrNotEnoughTxsForEstimate")
                  <=> (~run.noSuccess /\ FSign(runConfirmCount(run.stt, run.end)) <= 0)
            /\ (buckets = newTxConfirmStats.buckets /\ memPool = newTxConfirmStats.memPool)
                  => estimated.err = "ErrNotEnoughTxsForEstimate"

\* txs were confirmed in the lower bucket only, too few for a run: the
\* selected run is the empty top bucket
C20_Witness ==
    /\ op.name = "estimate"
    /\ validTarget(op.minConfs)
    /\ estimated.err = "ErrNotEnoughTxsForEstimate"
    /\ FSign(buckets[0].confirmCount) > 0
    /\ buckets[nbBuckets - 1].confirmCount = FZero
    /\ memPoolTxs # <<>>

\* C21: an estimate, whether it returns a rate or an error, leaves both
\* tables, the index and the best height as they were, and asked again with
\* the same arguments right away it returns the same result.
C21_EstimateReadOnly ==
    [][op'.name = "estimate" =>
          /\ stats' = stats
          /\ estimated' = estimateMedianFee(stats', op'.minConfs, op'.successPct)]_vars

\* an estimate that returned a rate while a tx is still in the mempool
C21_Witness ==
    /\ op.name = "estimate"
    /\ estimated.err = "nil"
    /\ FSign(estimated.confirmCount) > 0
    /\ memPoolTxs # <<>>
    /\ bestHeight >= 2

singleTxMined(in) ==
    ProcessBlock(AddMemPoolTransaction(newTxConfirmStats, 1, in[1], in[2]), 1, <<1>>)

\* C23: on a new estimator, after the add of a single tx whose rate falls in
\* the highest fee bucket and one block that mines it, an estimate for target
\* 1 returns the rate of that tx, whatever the success percentage.
C23_SingleTxEstimate ==
    (op.name = "estimate" /\ op.minConfs = 1) =>
        \A in \in TxInputs :
            LET rate == feeRateOf(in[1], in[2])
                seed == singleTxMined(in)
            IN  (/\ rate >= upperBound[0]
                 /\ lowerBucket(rate) = nbBuckets - 1
                 /\ buckets = seed.buckets
                 /\ memPool = seed.memPool
                 /\ memPoolTxs = seed.memPoolTxs) =>
                    /\ estimated.err = "nil"
                    /\ estimated.feeSum = FConst(rate)
                    /\ estimated.confirmCount = FConst(1)

\* the estimate asked for right after the block that mined the only tx
C23_Witness ==
    /\ op.name = "estimate"
    /\ op.minConfs = 1
    /\ bestHeight = 1
    /\ nbAdds = 1
    /\ memPoolTxs = <<>>
    /\ buckets[nbBuckets - 1].confirmCount = FConst(1)
    /\ buckets[nbBuckets - 1].feeSum = FConst(upperBound[nbBuckets - 1])
    /\ estimated.err = "nil"

\* some tx was recorded as confirmed, and none of them within one block
onlySlowConfirmed ==
    /\ \E b \in Buckets : FSign(buckets[b].confirmCount) > 0
    /\ \A b \in Buckets : buckets[b].confirmed[confirmRange(1)].txCount = FZero

\* C24 (as claimed): when every tx recorded as confirmed took more blocks than
\* the target of 1, an estimate for target 1 at 95% fails with
\* NoSuccessPctBucket, however many such txs there are and whatever their
\* buckets.
C24_SlowOnlyNoSuccess ==
    (/\ op.name = "estimate"
     /\ op.minConfs = 1
     /\ op.successPct = <<19, 20>>
     /\ onlySlowConfirmed) =>
        estimated.err = "ErrNoSuccessPctBucketFound"

\* C24 (amended): in that case the estimate fails with NoSuccessPctBucket
\* exactly when the txs seen over all fee buckets (confirmed, decayed, plus
\* those in the mempool at the range of the target) exceed 1; otherwise it is
\* the mean rate of the top bucket if that bucket holds a confirmed tx, and
\* NotEnoughTxs if it does not.
C24_SlowOnlyNoSuccessIfFull ==
    (/\ op.name = "estimate"
     /\ op.minConfs = 1
     /\ op.successPct = <<19, 20>>
     /\ onlySlowConfirmed) =>
        LET top == nbBuckets - 1
        IN  IF runFull(confirmRange(1), 0, top)
            THEN estimated.err = "ErrNoSuccessPctBucketFound"
            ELSE IF FSign(buckets[top].confirmCount) > 0
            THEN /\ estimated.err = "nil"
                 /\ estimated.feeSum = buckets[top].feeSum
                 /\ estimated.confirmCount = buckets[top].confirmCount
            ELSE estimated.err = "ErrNotEnoughTxsForEstimate"

\* two slow txs, one in each fee bucket, and nothing in the mempool: the
\* estimate fails with NoSuccessPctBucket
C24_Witness ==
    /\ op.name = "estimate"
    /\ op.minConfs = 1
    /\ op.successPct = <<19, 20>>
    /\ onlySlowConfirmed
    /\ memPoolTxs = <<>>
    /\ \A b \in Buckets : buckets[b].confirmCount = FConst(1)
    /\ estimated.err = "ErrNoSuccessPctBucketFound"

\* the tracked txs of fee bucket b that are best height - added height = c
\* blocks old, all ages from maxConfirms - 1 on taken together
trackedAtAge(b, c) ==
    {id \in DOMAIN memPoolTxs :
        /\ memPoolTxs[id].bucketIdx = b
        /\ Min({bestHeight - memPoolTxs[id].addedHeight, MaxConfirms - 1}) = c}

\* C25 (as claimed): with block heights that only go up, skipped heights
\* included, every tracked tx is counted in the mempool cell of its bucket at
\* range min(best height - added height, maxConfirms - 1).
C25_SkippedHeightsKeepSlots ==
    ~panicked =>
        \A b \in Buckets, c \in Slots :
            FLeq(FConst(Cardinality(trackedAtAge(b, c))), memPool[b].confirmed[c].txCount)

\* the txs of the pool that the next iteration, if it mines them, takes from
\* mempool cell (b, c)
minedFrom(b, c) ==
    {id \in DOMAIN memPoolTxs :
        /\ lowerBucket(memPoolTxs[id].fees) = b
        /\ confirmRange(bestHeight + 1 - memPoolTxs[id].addedHeight) = c}

\* C26: under the loop of the first driver the program never reaches the
\* panic of newMinedTx: once updateMovingAverages has run, every mempool cell
\* holds at least the txs of the pool that newMinedTx would take from it in
\* this iteration.
C26_DriverNeverPanics ==
    /\ ~panicked
    /\ LET shifted == updateMovingAverages(stats).memPool
       IN  \A b \in Buckets, c \in Slots :
               FLeq(FConst(Cardinality(minedFrom(b, c))), shifted[b].confirmed[c].txCount)

\* a block mined two txs of one bucket that had waited 1 and 3 blocks, the
\* second one from the last range
C26_Witness ==
    /\ op.name = "block"
    /\ Len(op.mined) = 2
    /\ bestHeight = MaxHeight + 1
    /\ memPoolTxs = <<>>
    /\ \E b \in Buckets :
        /\ buckets[b].confirmed[1].txCount = FConst(1)
        /\ buckets[b].confirmed[MaxConfirms - 1].txCount = FConst(2)

\* C27: a tx that entered the mempool k iterations ago and was not mined is
\* counted in range min(k, maxConfirms - 1) of its fee bucket: every mempool
\* cell holds exactly the txs of that age.
C27_SlotFollowsBlocks ==
    \A b \in Buckets, c \in Slots :
        memPool[b].confirmed[c].txCount = FConst(Cardinality(trackedAtAge(b, c)))

\* a tx three blocks old stays in the last range, next to a tx two blocks old
\* that has just reached it
C27_Witness ==
    /\ op.name = "block"
    /\ \E id1 \in DOMAIN memPoolTxs, id2 \in DOMAIN memPoolTxs :
        /\ bestHeight - memPoolTxs[id1].addedHeight = MaxConfirms
        /\ bestHeight - memPoolTxs[id2].addedHeight = MaxConfirms - 1
        /\ memPoolTxs[id1].bucketIdx = memPoolTxs[id2].bucketIdx
        /\ memPool[memPoolTxs[id1].bucketIdx].confirmed[MaxConfirms - 1].txCount = FConst(2)

\* A mempool bucket of n confirmation ranges, filled with the cells the
\* mempool table holds from bucket b on.
rangesFrom(b, n) ==
    [r \in 0..(n - 1) |->
        memPool[(b + (r \div MaxConfirms)) % nbBuckets].confirmed[r % MaxConfirms]]

\* C28: one mempool shift turns the ranges m[0 .. maxConfirms - 1] of every
\* fee bucket into: last = m[last] + m[last - 1], range s = m[s - 1] for
\* 1 <= s <= last - 1, and range 0 = 0, count and fee sum alike, for every
\* number of ranges from 2 to MaxRanges.
C28_ShiftMapsRanges ==
    \A n \in 2..MaxRanges : \A b \in Buckets :
        LET m == rangesFrom(b, n)
            new == shiftBucket([memPool[b] EXCEPT !.confirmed = m]).confirmed
            last == n - 1
        IN  /\ (n = MaxConfirms => new = updateMovingAverages(stats).memPool[b].confirmed)
            /\ DOMAIN new = 0..last
            /\ new[last].txCount = FAdd(m[last].txCount, m[last - 1].txCount)
            /\ new[last].feeSum = FAdd(m[last].feeSum, m[last - 1].feeSum)
            /\ \A r \in 1..(last - 1) : new[r] = m[r - 1]
            /\ new[0] = ZeroCount

\* a bucket whose ranges all hold txs, no two ranges alike, is there to be
\* shifted
C28_Witness ==
    /\ op.name = "add"
    /\ \E b \in Buckets :
        LET m == memPool[b].confirmed
        IN  /\ \A c \in Slots : m[c] # ZeroCount
            /\ \A c, d \in Slots : c # d => m[c] # m[d]

RECURSIVE sumFeeSum(_, _)
sumFeeSum(confirmed, c) ==
    IF c < 0 THEN FZero ELSE FAdd(confirmed[c].feeSum, sumFeeSum(confirmed, c - 1))

\* C29: updateMovingAverages keeps, for every fee bucket, the sum of the
\* mempool counts and of the mempool fee sums over the ranges, and changes the
\* confirmed table by the decay factor only.
C29_ShiftConservesMemPool ==
    LET after == updateMovingAverages(stats)
    IN  \A b \in Buckets :
            /\ sumTxCount(after.memPool[b].confirmed, MaxConfirms - 1)
                 = sumTxCount(memPool[b].confirmed, MaxConfirms - 1)
            /\ sumFeeSum(after.memPool[b].confirmed, MaxConfirms - 1)
                 = sumFeeSum(memPool[b].confirmed, MaxConfirms - 1)
            /\ after.buckets[b].confirmCount = FMulDecay(buckets[b].confirmCount)
            /\ after.buckets[b].feeSum = FMulDecay(buckets[b].feeSum)
            /\ \A c \in Slots :
                /\ after.buckets[b].confirmed[c].txCount
                     = FMulDecay(buckets[b].confirmed[c].txCount)
                /\ after.buckets[b].confirmed[c].feeSum
                     = FMulDecay(buckets[b].confirmed[c].feeSum)

\* a block left two txs in the mempool, one of them new, and a confirmed tx
\* that has been decayed once
C29_Witness ==
    /\ op.name = "block"
    /\ \E b \in Buckets :
        /\ memPool[b].confirmed[0].txCount = FZero
        /\ memPool[b].confirmed[1].txCount = FConst(1)
        /\ memPool[b].confirmed[MaxConfirms - 1].txCount = FConst(1)
    /\ \E b \in Buckets : buckets[b].confirmCount = FMulDecay(FConst(1))

\* C30: every index entry has an added height at or below the best height, so
\* for a block above the best height the delay of every tracked tx is at
\* least 1 and the branch for a delay <= 0 is not taken.
C30_AddedHeightAtMostBest ==
    \A id \in DOMAIN memPoolTxs :
        /\ memPoolTxs[id].addedHeight <= bestHeight
        /\ \A newHeight \in Heights :
               newHeight > bestHeight => newHeight - memPoolTxs[id].addedHeight >= 1

\* a tx added at the best height, after a block, next to an older one
C30_Witness ==
    /\ op.name = "add"
    /\ op.id \in DOMAIN memPoolTxs
    /\ bestHeight > 0
    /\ bestHeight < MaxHeight
    /\ memPoolTxs[op.id].addedHeight = bestHeight
    /\ \E id \in DOMAIN memPoolTxs : memPoolTxs[id].addedHeight < bestHeight

\* C31: a tx id contributes to the confirmed table at most once per add. A
\* tracked id listed twice in the mined ids of a block counts as listed once;
\* listed again in the next block, or listed in a block after it was removed,
\* it changes nothing that the block without it would not change; and so does
\* every id the index does not hold.
C31_MinedAtMostOnce ==
    ~panicked =>
        \A newHeight \in Heights : newHeight > bestHeight =>
            /\ \A id \in TxIds \ DOMAIN memPoolTxs :
                /\ ProcessBlock(stats, newHeight, <<id>>) = ProcessBlock(stats, newHeight, <<>>)
                /\ ProcessBlock(stats, newHeight, <<id, id>>) = ProcessBlock(stats, newHeight, <<>>)
            /\ \A id \in DOMAIN memPoolTxs :
                LET once == ProcessBlock(stats, newHeight, <<id>>)
                    removed == RemoveMemPoolTransaction(stats, id)
                IN  /\ ProcessBlock(stats, newHeight, <<id, id>>) = once
                    /\ ~once.panicked => ~tracked(once, id)
                    /\ (~once.panicked /\ newHeight < MaxHeight) =>
                          ProcessBlock(once, newHeight + 1, <<id>>)
                            = ProcessBlock(once, newHeight + 1, <<>>)
                    /\ ~removed.panicked =>
                          /\ ~tracked(removed, id)
                          /\ ProcessBlock(removed, newHeight, <<id>>)
                               = ProcessBlock(removed, newHeight, <<>>)

\* a block that lists the one tx there is twice has recorded it once
C31_Witness ==
    /\ op.name = "block"
    /\ op.height = bestHeight
    /\ ~panicked
    /\ \E id \in TxIds :
        /\ op.mined = <<id, id>>
        /\ id \notin DOMAIN memPoolTxs
    /\ \E b \in Buckets :
        /\ buckets[b].confirmCount = FConst(1)
        /\ \A o \in Buckets \ {b} : buckets[o].confirmCount = FZero

\* C32 (as claimed): confirmRange(d) = min(d - 1, maxConfirms - 1) for every
\* delay d >= 1 that a tx mined by the next block can have, and for the
\* delays of maxConfirms blocks and more.
C32_ConfirmRangeIsDelayLessOne ==
    \A blocksToConfirm \in 1..(bestHeight + 1) \cup MaxConfirms..(MaxHeight + 1) :
        confirmRange(blocksToConfirm) = Min({blocksToConfirm - 1, MaxConfirms - 1})

\* the smallest bucket whose bound is at or above the rate, the last bucket
\* when there is none
smallestAtOrAbove(rate) ==
    LET found == {i \in Buckets : upperBound[i] >= rate}
    IN  IF found # {} THEN Min(found) ELSE nbBuckets - 1

\* C33 (as claimed): lowerBucket(rate) is the smallest i with
\* upperBound[i] >= rate, and the last bucket for a rate above every bound:
\* that is the bucket whose mempool cell counts a new tx of the rate.
C33_LowerBucketSmallestAtOrAbove ==
    \A rate \in 0..(MaxBucketFee + 1) :
        /\ lowerBucket(rate) = smallestAtOrAbove(rate)
        /\ newMemPoolTx(stats, rate).memPool[smallestAtOrAbove(rate)].confirmed[0]
             = addRate(memPool[smallestAtOrAbove(rate)].confirmed[0], rate)

\* k blocks at the heights that follow the best height of e, each of them
\* listing the ids of minedIds
RECURSIVE blocksOf(_, _, _)
blocksOf(e, k, minedIds) ==
    IF k = 0 THEN e ELSE blocksOf(ProcessBlock(e, e.bestHeight + 1, minedIds), k - 1, minedIds)

\* p * decay^k
timesDecayPow(p, k) == [a \in Ages |-> IF a < k THEN 0 ELSE p[a - k]]

\* C34: after K >= 0 processed blocks that record no confirmed tx, every cell
\* of the confirmed table and every aggregate of a bucket is its earlier value
\* times decay^K, decay = 0.998, whatever the heights of the blocks; the
\* mempool table is shifted, not decayed.
C34_QuietBlocksDecay ==
    ~panicked =>
      /\ \A newHeight \in Heights : newHeight > bestHeight =>
            ProcessBlock(stats, newHeight, <<>>).buckets
              = [b \in Buckets |->
                    [confirmed |-> [c \in Slots |->
                        [txCount |-> timesDecayPow(buckets[b].confirmed[c].txCount, 1),
                         feeSum |-> timesDecayPow(buckets[b].confirmed[c].feeSum, 1)]],
                     confirmCount |-> timesDecayPow(buckets[b].confirmCount, 1),
                     feeSum |-> timesDecayPow(buckets[b].feeSum, 1)]]
      /\ \A K \in 0..(MaxHeight - bestHeight) :
            \A minedIds \in {l \in MinedLists : \A i \in DOMAIN l : l[i] \notin DOMAIN memPoolTxs} :
                LET after == blocksOf(stats, K, minedIds)
                IN  /\ ~after.panicked
                    /\ after.bestHeight = bestHeight + K
                    /\ DecayNum * 1000 = 998 * DecayDen
                    /\ \A b \in Buckets :
                        /\ after.buckets[b].confirmCount
                             = timesDecayPow(buckets[b].confirmCount, K)
                        /\ after.buckets[b].feeSum = timesDecayPow(buckets[b].feeSum, K)
                        /\ \A c \in Slots :
                            /\ after.buckets[b].confirmed[c].txCount
                                 = timesDecayPow(buckets[b].confirmed[c].txCount, K)
                            /\ after.buckets[b].confirmed[c].feeSum
                                 = timesDecayPow(buckets[b].confirmed[c].feeSum, K)
                        /\ sumTxCount(after.memPool[b].confirmed, MaxConfirms - 1)
                             = sumTxCount(memPool[b].confirmed, MaxConfirms - 1)
                        /\ sumFeeSum(after.memPool[b].confirmed, MaxConfirms - 1)
                             = sumFeeSum(memPool[b].confirmed, MaxConfirms - 1)
                        /\ \A c \in Slots : c < MaxConfirms - 1 =>
                              after.memPool[b].confirmed[c]
                                = IF c >= K THEN memPool[b].confirmed[c - K] ELSE ZeroCount

\* two blocks without txs came after the block that confirmed a tx, with
\* another tx waiting in the mempool
C34_Witness ==
    /\ op.name = "block"
    /\ op.height = bestHeight
    /\ op.mined = <<>>
    /\ ~panicked
    /\ memPoolTxs # <<>>
    /\ \E b \in Buckets :
        /\ buckets[b].confirmCount = timesDecayPow(FConst(1), 2)
        /\ buckets[b].feeSum # FZero

\* the fee rates of the txs the host submits
Rates == {feeRateOf(in[1], in[2]) : in \in TxInputs}

\* C35: a decrement of a mempool cell that holds no tx, by mining or by
\* removing, aborts the program; a decrement of a cell that holds one returns,
\* and leaves no count of the mempool table below zero.
C35_NegativeCountPanics ==
    ~panicked =>
        /\ \A rate \in Rates, blocksToConfirm \in 0..(MaxHeight + 1) :
              LET cell == memPool[lowerBucket(rate)].confirmed[confirmRange(blocksToConfirm)]
                  after == newMinedTx(stats, blocksToConfirm, rate)
              IN  /\ after.panicked <=> cell.txCount = FZero
                  /\ ~after.panicked =>
                        \A b \in Buckets, c \in Slots :
                            FSign(after.memPool[b].confirmed[c].txCount) >= 0
        /\ \A id \in DOMAIN memPoolTxs :
              LET desc == memPoolTxs[id]
                  range == confirmRange(bestHeight - desc.addedHeight + 1)
                  after == RemoveMemPoolTransaction(stats, id)
              IN  /\ after.panicked <=> memPool[desc.bucketIdx].confirmed[range].txCount = FZero
                  /\ ~after.panicked =>
                        \A b \in Buckets, c \in Slots :
                            FSign(after.memPool[b].confirmed[c].txCount) >= 0

\* a block has mined a tx from a mempool cell that did not hold it: the count
\* is below zero and the program has aborted
C35_Witness ==
    /\ panicked
    /\ op.name = "block"
    /\ op.mined # <<>>
    /\ \E b \in Buckets, c \in Slots : memPool[b].confirmed[c].txCount = FConst(-1)

\* C36: the run the scan of an estimate ends with satisfies
\* 0 <= bestBucketsStt <= bestBucketsEnd <= nbBuckets - 1; no confirmCount is
\* negative, and when the confirmCount of the run is > 0 the second loop
\* returns from a bucket of the run whose confirmCount is > 0, so that it
\* neither divides by zero nor reaches the error after the loop.
C36_MedianInsideRun ==
    ~panicked =>
        \A minConfs \in Targets, successPct \in SuccessPcts :
            LET s == scanBuckets(stats, confirmRange(minConfs), successPct,
                                 nbBuckets - 1, scanStart)
                txCount == sumConfirmCount(stats, s.bestBucketsStt, s.bestBucketsEnd)
                b == medianBucket(stats, s.bestBucketsStt, s.bestBucketsEnd, txCount)
                result == estimateMedianFee(stats, minConfs, successPct)
            IN  /\ 0 <= s.bestBucketsStt
                /\ s.bestBucketsStt <= s.bestBucketsEnd
                /\ s.bestBucketsEnd <= nbBuckets - 1
                /\ \A i \in Buckets : FSign(buckets[i].confirmCount) >= 0
                /\ result.err # "this isn't supposed to be reached"
                /\ FSign(txCount) > 0 =>
                      /\ b \in s.bestBucketsStt..s.bestBucketsEnd
                      /\ FSign(buckets[b].confirmCount) > 0
                      /\ (s.err = "nil" =>
                            /\ result.err = "nil"
                            /\ result.confirmCount = buckets[b].confirmCount
                            /\ result.feeSum = buckets[b].feeSum)

\* an estimate was returned from a run of two buckets, the median being in
\* the second of them
C36_Witness ==
    /\ op.name = "estimate"
    /\ estimated.err = "nil"
    /\ LET s == scanBuckets(stats, confirmRange(op.minConfs), op.successPct,
                            nbBuckets - 1, scanStart)
       IN  /\ s.bestBucketsStt < s.bestBucketsEnd
           /\ estimated.confirmCount = buckets[s.bestBucketsEnd].confirmCount
           /\ buckets[s.bestBucketsStt].confirmCount # FZero
           /\ buckets[s.bestBucketsStt].confirmCount # buckets[s.bestBucketsEnd].confirmCount

\* C37: when no run of buckets from the highest one down holds more than one
\* tx at the range of the target, the estimate is that of the highest fee
\* bucket alone, whatever the success percentage: its feeSum / confirmCount
\* if its confirmCount is > 0 and ErrNotEnoughTxsForEstimate otherwise, the
\* lower buckets not being looked at.
C37_NoFullRunUsesHighestBucket ==
    (op.name = "estimate" /\ firstFull(confirmRange(op.minConfs), nbBuckets - 1) < 0) =>
        LET highest == buckets[nbBuckets - 1]
        IN  /\ estimated = IF FSign(highest.confirmCount) > 0
                           THEN [err |-> "nil", feeSum |-> highest.feeSum,
                                 confirmCount |-> highest.confirmCount]
                           ELSE failed("ErrNotEnoughTxsForEstimate")
            /\ \A successPct \in SuccessPcts :
                  estimateMedianFee(stats, op.minConfs, successPct) = estimated

\* no estimate is returned although a lower fee bucket holds a confirmed tx:
\* the highest bucket has none
C37_Witness ==
    /\ op.name = "estimate"
    /\ firstFull(confirmRange(op.minConfs), nbBuckets - 1) < 0
    /\ estimated.err = "ErrNotEnoughTxsForEstimate"
    /\ buckets[nbBuckets - 1].confirmCount = FZero
    /\ \E b \in Buckets : FSign(buckets[b].confirmCount) > 0

====
